---------------------------- MODULE Spec2Model ----------------------------
(***************************************************************************)
(* Model of the request-validation middleware of the producktive server   *)
(* (src/server/user/middleware.ts): the eleven exported checks, the way   *)
(* express runs them as a chain in front of a route handler, the user     *)
(* collection and the session store they consult.                         *)
(*                                                                         *)
(* Strings are sequences of one-character strings, so that the regular    *)
(* expressions of the validators are computed character by character.     *)
(* A body or query field that is not sent (JavaScript undefined) is the   *)
(* value Absent.                                                           *)
(***************************************************************************)
EXTENDS Naturals, Sequences, FiniteSets, TLC

VARIABLES
    users,      \* the user collection: a set of user documents
    nextId,     \* the identifier the next inserted user document gets
    session,    \* session[c]: req.session.userId of client c's session (NoUserId: undefined)
    reqs,       \* reqs[c]: the request of client c being processed
    served,     \* the number of requests received so far
    rejected500,\* rejected500[c]: the 500 responses written to client c's session since its last login
    items,      \* the item collection: the purchase documents in insertion order
    purchases,  \* the arguments of the addOne calls made so far, in call order
    saving,     \* the documents of the addOne calls suspended at await purchased.save()
    added,      \* the identifiers of the documents whose addOne has returned
    listing,    \* the last findItemsById call: how far it is, its argument and its answer
    lists,      \* the ListView component's lists state
    calls,      \* the HTTP calls the component started, in the order it started them
    serverLists,\* the list collection of the server
    nextListId  \* the identifier the next created list gets

\* the state of the account routes
serverVars == <<users, nextId, session, reqs, served, rejected500>>
\* the state of the item collection
itemVars == <<items, purchases, saving, added, listing>>
\* the state of the ListView page and of the list routes it talks to
clientVars == <<lists, calls, serverLists, nextListId>>
\* what the steps of the account routes leave alone
nonServerVars == <<itemVars, clientVars>>

vars == <<serverVars, nonServerVars>>

----------------------------------------------------------------------------
(* Bounds of the model *)

\* longest string the format specification enumerates over Alphabet
MaxStrLen == 6
\* longest middleware chain the chain specification enumerates
MaxChain == 2
\* number of user documents ever inserted in the server specification
MaxUsers == 2
\* number of requests the server specification receives
MaxRequests == 4

----------------------------------------------------------------------------
(* Strings and JavaScript truthiness *)

Absent == <<"undefined">>

\* !!v for v undefined or a string: undefined and "" are falsy
Truthy(v) == v # Absent /\ v # <<>>

Lower == {"a","b","c","d","e","f","g","h","i","j","k","l","m",
          "n","o","p","q","r","s","t","u","v","w","x","y","z"}
Upper == {"A","B","C","D","E","F","G","H","I","J","K","L","M",
          "N","O","P","Q","R","S","T","U","V","W","X","Y","Z"}
Digit == {"0","1","2","3","4","5","6","7","8","9"}

\* \w
WordChar == Lower \cup Upper \cup Digit \cup {"_"}
\* vertical tab, no-break space, ogham space mark and byte order mark
VerticalTab == ""
NoBreakSpace == " "
OghamSpace == " "
ByteOrderMark == "﻿"
\* \s: the white space and line terminators of JavaScript.  Of these, the
\* module cannot write U+2000 to U+200A, U+2028, U+2029, U+202F, U+205F and
\* U+3000 in a string; no string of the model contains them.
WhiteSpace ==
    {" ", "\t", "\n", "\r", "\f", VerticalTab, NoBreakSpace, OghamSpace, ByteOrderMark}
\* the characters the regular expression dot does not match (U+2028 and
\* U+2029 cannot be written either)
LineTerminator == {"\n", "\r"}
\* [\w-.]
LocalChar == WordChar \cup {"-", "."}
\* [\w-]
LabelChar == WordChar \cup {"-"}

AllIn(s, from, to, class) == \A i \in from..to : s[i] \in class

\* /^\w+$/i .test(s)
usernameRegex(s) == Len(s) >= 1 /\ AllIn(s, 1, Len(s), WordChar)

\* /^\S+$/ .test(s)
passwordRegex(s) == Len(s) >= 1 /\ \A i \in 1..Len(s) : s[i] \notin WhiteSpace

\* what stands between two labels: the pattern's unescaped dot (any
\* character but a line terminator), or, with literal, a "." only
DotMatches(ch, literal) == IF literal THEN ch = "." ELSE ch \notin LineTerminator

\* [\w-]{2,4}$ from position p
TailMatches(s, p) ==
    /\ Len(s) - p + 1 \in 2..4
    /\ AllIn(s, p, Len(s), LabelChar)

\* ([\w-]+.)+[\w-]{2,4}$ from position p
RECURSIVE GroupsMatch(_, _, _)
GroupsMatch(s, p, literal) ==
    \E q \in (p + 1)..Len(s) :
        /\ AllIn(s, p, q - 1, LabelChar)
        /\ DotMatches(s[q], literal)
        /\ (TailMatches(s, q + 1) \/ GroupsMatch(s, q + 1, literal))

\* ^[\w-.]+@ then the groups and the tail
EmailMatches(s, literal) ==
    \E i \in 1..Len(s) :
        /\ i + 1 <= Len(s)
        /\ AllIn(s, 1, i, LocalChar)
        /\ s[i + 1] = "@"
        /\ GroupsMatch(s, i + 2, literal)

\* /^[\w-.]+@([\w-]+.)+[\w-]{2,4}$/g .test(s)
emailRegex(s) == EmailMatches(s, FALSE)

\* ["daily", "weekly", "monthly", "none"]
validPeriod == { <<"d","a","i","l","y">>, <<"w","e","e","k","l","y">>,
                 <<"m","o","n","t","h","l","y">>, <<"n","o","n","e">> }


----------------------------------------------------------------------------
(* The user collection (UserCollection, server/user/collection): exact-match
   look-ups over the set of user documents *)

NoUserId == 0

\* the null a look-up resolves to when no document matches
Null == [id |-> NoUserId, username |-> Absent, email |-> Absent, password |-> Absent]

\* findOne: the first inserted of the matching documents, or null
FirstOf(matching) ==
    IF matching = {} THEN Null
    ELSE CHOOSE u \in matching : \A v \in matching : u.id <= v.id

findOneByUserId(db, id) == FirstOf({u \in db : u.id = id})
findOneByUsername(db, username) == FirstOf({u \in db : u.username = username})
findOneByEmail(db, email) == FirstOf({u \in db : u.email = email})
findOneByEmailAndPassword(db, email, password) ==
    FirstOf({u \in db : u.email = email /\ u.password = password})

\* a look-up a check is waiting for; NoQuery when it waits for none
NoQuery == [op |-> "none", id |-> NoUserId, s1 |-> <<>>, s2 |-> <<>>]
Query(op, id, s1, s2) == [op |-> op, id |-> id, s1 |-> s1, s2 |-> s2]

\* the document store answers a look-up from its current content
Exec(q, db) ==
    CASE q.op = "findOneByUserId" -> findOneByUserId(db, q.id)
      [] q.op = "findOneByUsername" -> findOneByUsername(db, q.s1)
      [] q.op = "findOneByEmail" -> findOneByEmail(db, q.s1)
      [] q.op = "findOneByEmailAndPassword" -> findOneByEmailAndPassword(db, q.s1, q.s2)
      [] OTHER -> Null

----------------------------------------------------------------------------
(* What one run of a check does: calls of next, responses written, the
   session's user identifier, and the look-up it awaits *)

ErrObj(key, msg) == [type |-> "object", key |-> key, msg |-> msg, arg |-> <<>>, rest |-> ""]
ErrStr(msg) == [type |-> "string", key |-> "", msg |-> msg, arg |-> <<>>, rest |-> ""]
\* a plain message built by a template literal: msg, the text of arg, rest
ErrTemplate(msg, arg, rest) ==
    [type |-> "string", key |-> "", msg |-> msg, arg |-> arg, rest |-> rest]

\* ${v} in a template literal: the string itself, "undefined" for undefined
TemplateText(v) ==
    IF v = Absent THEN <<"u","n","d","e","f","i","n","e","d">> ELSE v

\* entry of a check: nothing called or written yet; uid is req.session.userId
Enter(uid) ==
    [nextCalls |-> 0, responses |-> <<>>, uid |-> uid, pending |-> NoQuery, lookups |-> 0]

\* next()
CallNext(o) == [o EXCEPT !.nextCalls = @ + 1]

\* res.status(status).json({error})
Json(o, status, error) ==
    [o EXCEPT !.responses = Append(@, [status |-> status, error |-> error])]

\* await UserCollection.<op>(...)
Await(o, q) == [o EXCEPT !.pending = q, !.lookups = @ + 1]

\* the awaited look-up has resolved
Resumed(o) == [o EXCEPT !.pending = NoQuery]

----------------------------------------------------------------------------
(* The eleven checks.  A synchronous check is one operator from the entry
   state to the state at its return.  An asynchronous check is its code up
   to the await, and its code after the await given the document found. *)

isCurrentSessionUserExists(req, o) ==
    IF o.uid # NoUserId
    THEN Await(o, Query("findOneByUserId", o.uid, <<>>, <<>>))
    ELSE CallNext(o)

\* a variant that answers 500 and leaves the stale identifier in the session
isCurrentSessionUserExistsAfterAwait_KeepsSession(req, o, user) ==
    IF user.id = NoUserId
    THEN Json(o, 500, ErrObj("userNotFound", "User session was not recognized."))
    ELSE CallNext(o)

\* a variant that clears the stale identifier and lets the request go on
isCurrentSessionUserExistsAfterAwait_ClearsAndContinues(req, o, user) ==
    IF user.id = NoUserId
    THEN CallNext([o EXCEPT !.uid = NoUserId])
    ELSE CallNext(o)

isCurrentSessionUserExistsAfterAwait(req, o, user) ==
    IF user.id = NoUserId
    THEN Json([o EXCEPT !.uid = NoUserId], 500,
              ErrObj("userNotFound", "User session was not recognized."))
    ELSE CallNext(o)

\* a variant whose error object is keyed by another name than the field's
isValidUsername_WrongKey(req, o) ==
    IF Truthy(req.body.username) /\ ~usernameRegex(req.body.username)
    THEN Json(o, 400, ErrObj("user", "Username must be a nonempty alphanumeric string."))
    ELSE CallNext(o)

isValidUsername(req, o) ==
    IF Truthy(req.body.username) /\ ~usernameRegex(req.body.username)
    THEN Json(o, 400, ErrObj("username", "Username must be a nonempty alphanumeric string."))
    ELSE CallNext(o)

isValidEmail(req, o) ==
    IF Truthy(req.body.email) /\ ~emailRegex(req.body.email)
    THEN Json(o, 400, ErrStr("Email must be a valid email!"))
    ELSE CallNext(o)

isValidPassword(req, o) ==
    IF Truthy(req.body.password) /\ ~passwordRegex(req.body.password)
    THEN Json(o, 400, ErrStr("Password must be a nonempty string."))
    ELSE CallNext(o)

isValidPeriod(req, o) ==
    IF Truthy(req.body.notifPeriod) /\ req.body.notifPeriod \notin validPeriod
    THEN Json(o, 400, ErrStr("Period must be one of the following: daily,weekly,monthly,none"))
    ELSE CallNext(o)

\* a variant that looks the account up by its email alone
isAccountExists_ByEmailOnly(req, o) ==
    IF ~Truthy(req.body.email) \/ ~Truthy(req.body.password)
    THEN Json(o, 400,
              ErrStr(IF Truthy(req.body.email)
                     THEN "Missing password credentials for sign in."
                     ELSE "Missing email credentials for sign in."))
    ELSE Await(o, Query("findOneByEmail", NoUserId, req.body.email, <<>>))

isAccountExists(req, o) ==
    IF ~Truthy(req.body.email) \/ ~Truthy(req.body.password)
    THEN Json(o, 400,
              ErrStr(IF Truthy(req.body.email)
                     THEN "Missing password credentials for sign in."
                     ELSE "Missing email credentials for sign in."))
    ELSE Await(o, Query("findOneByEmailAndPassword", NoUserId,
                        req.body.email, req.body.password))

\* a variant that logs the account in while checking it
isAccountExistsAfterAwait_SetsSession(req, o, user) ==
    IF user.id # NoUserId
    THEN CallNext([o EXCEPT !.uid = user.id])
    ELSE Json(o, 401, ErrStr("Invalid user login credentials provided."))

isAccountExistsAfterAwait(req, o, user) ==
    IF user.id # NoUserId
    THEN CallNext(o)
    ELSE Json(o, 401, ErrStr("Invalid user login credentials provided."))

isUsernameNotAlreadyInUse(req, o) ==
    IF ~Truthy(req.body.username)
    THEN CallNext(o)
    ELSE Await(o, Query("findOneByUsername", NoUserId, req.body.username, <<>>))

\* a variant without the exception for the session's own user
isUsernameNotAlreadyInUseAfterAwait_NoSelf(req, o, user) ==
    IF user.id = NoUserId
    THEN CallNext(o)
    ELSE Json(o, 409, ErrObj("username", "An account with this username already exists."))

isUsernameNotAlreadyInUseAfterAwait(req, o, user) ==
    IF user.id = NoUserId \/ user.id = o.uid
    THEN CallNext(o)
    ELSE Json(o, 409, ErrObj("username", "An account with this username already exists."))

\* a variant with the test of isUserLoggedOut
isUserLoggedIn_Inverted(req, o) ==
    IF o.uid # NoUserId
    THEN Json(o, 403, ErrObj("auth", "You must be logged in to complete this action."))
    ELSE CallNext(o)

isUserLoggedIn(req, o) ==
    IF o.uid = NoUserId
    THEN Json(o, 403, ErrObj("auth", "You must be logged in to complete this action."))
    ELSE CallNext(o)

\* a variant without the return after the response
isUserLoggedOut_NoReturn(req, o) ==
    IF o.uid # NoUserId
    THEN CallNext(Json(o, 403, ErrStr("You are already signed in.")))
    ELSE CallNext(o)

isUserLoggedOut(req, o) ==
    IF o.uid # NoUserId
    THEN Json(o, 403, ErrStr("You are already signed in."))
    ELSE CallNext(o)

\* a variant without the early return for a body that sends no email
isEmailNotAlreadyInUse_NoEarlyReturn(req, o) ==
    Await(o, Query("findOneByEmail", NoUserId, req.body.email, <<>>))

isEmailNotAlreadyInUse(req, o) ==
    IF ~Truthy(req.body.email)
    THEN CallNext(o)
    ELSE Await(o, Query("findOneByEmail", NoUserId, req.body.email, <<>>))

isEmailNotAlreadyInUseAfterAwait(req, o, user) ==
    IF user.id = NoUserId \/ user.id = o.uid
    THEN CallNext(o)
    ELSE Json(o, 409, ErrObj("username", "An account with this email already exists."))

\* a variant that looks the user up without testing the parameter first
isUsernameExists_NoGuard(req, o) ==
    Await(o, Query("findOneByUsername", NoUserId, req.query.username, <<>>))

isUsernameExists(req, o) ==
    IF ~Truthy(req.query.username)
    THEN Json(o, 400, ErrStr("Provided username must be nonempty"))
    ELSE Await(o, Query("findOneByUsername", NoUserId, req.query.username, <<>>))

isUsernameExistsAfterAwait(req, o, user) ==
    IF user.id = NoUserId
    THEN Json(o, 404, ErrTemplate("A user with username ",
                                  TemplateText(req.query.author),
                                  " does not exist."))
    ELSE CallNext(o)

Validators == {"isValidUsername", "isValidEmail", "isValidPassword", "isValidPeriod"}

AsyncChecks == {"isCurrentSessionUserExists", "isAccountExists", "isUsernameNotAlreadyInUse",
                "isEmailNotAlreadyInUse", "isUsernameExists"}

CheckNames == Validators \cup AsyncChecks \cup {"isUserLoggedIn", "isUserLoggedOut"}

\* the check called by name: its code up to its return or its first await
Call(name, req, o) ==
    CASE name = "isCurrentSessionUserExists" -> isCurrentSessionUserExists(req, o)
      [] name = "isValidUsername" -> isValidUsername(req, o)
      [] name = "isValidEmail" -> isValidEmail(req, o)
      [] name = "isValidPassword" -> isValidPassword(req, o)
      [] name = "isValidPeriod" -> isValidPeriod(req, o)
      [] name = "isAccountExists" -> isAccountExists(req, o)
      [] name = "isUsernameNotAlreadyInUse" -> isUsernameNotAlreadyInUse(req, o)
      [] name = "isUserLoggedIn" -> isUserLoggedIn(req, o)
      [] name = "isUserLoggedOut" -> isUserLoggedOut(req, o)
      [] name = "isEmailNotAlreadyInUse" -> isEmailNotAlreadyInUse(req, o)
      [] name = "isUsernameExists" -> isUsernameExists(req, o)

\* the code of an asynchronous check after its await
AfterAwait(name, req, o, user) ==
    CASE name = "isCurrentSessionUserExists" -> isCurrentSessionUserExistsAfterAwait(req, o, user)
      [] name = "isAccountExists" -> isAccountExistsAfterAwait(req, o, user)
      [] name = "isUsernameNotAlreadyInUse" -> isUsernameNotAlreadyInUseAfterAwait(req, o, user)
      [] name = "isEmailNotAlreadyInUse" -> isEmailNotAlreadyInUseAfterAwait(req, o, user)
      [] name = "isUsernameExists" -> isUsernameExistsAfterAwait(req, o, user)

\* one whole run of a check against a store that does not change meanwhile
RunCheck(name, req, uid, db) ==
    LET o == Call(name, req, Enter(uid))
    IN  IF o.pending.op = "none" THEN o
        ELSE AfterAwait(name, req, Resumed(o), Exec(o.pending, db))

----------------------------------------------------------------------------
(* The item collection (ItemCollection, server/store_item/collection.ts) *)

\* ItemModel.save(): the document is inserted into the collection, after the
\* documents already there
Save(db, doc) == Append(db, doc)

\* ItemModel.find({ userId }): the documents whose userId matches exactly
Find(db, userId) == SelectSeq(db, LAMBDA d : d.userId = userId)

\* new ItemModel({ userId, type, identifier, properties }): a document of the
\* four fields with a generated identifier
ItemDoc(fresh, userId, type, identifier, properties) ==
    [_id |-> fresh, userId |-> userId, type |-> type,
     identifier |-> identifier, properties |-> properties]

findItemsById_AnyUser(db, userId) == db

findItemsById(db, userId) == Find(db, userId)

\* addOne up to its await: the document purchased, whose save it awaits;
\* fresh is the identifier the constructor generates
addOne(fresh, userId, type, identifier, properties) ==
    ItemDoc(fresh, userId, type, identifier, properties)

ItemIds(docs) == {docs[k]._id : k \in 1..Len(docs)}

\* a findItemsById call: stage is "called" (the promise is returned, the
\* store has not read), "read" (the store has carried the query out) or
\* "answered" (the array has reached the caller); seen are the documents
\* whose addOne had returned at the call, upto is the number of addOne calls
\* made when the answer reached the caller
Listing(stage, userId, docs, seen, upto) ==
    [stage |-> stage, userId |-> userId, docs |-> docs, seen |-> seen, upto |-> upto]

\* findItemsById has not been called
NoListing == Listing("none", NoUserId, <<>>, {}, 0)

\* the item collection as the server starts: no purchase recorded
NoItems ==
    /\ items = <<>>
    /\ purchases = <<>>
    /\ saving = {}
    /\ added = {}
    /\ listing = NoListing

----------------------------------------------------------------------------
(* The client: JSON values, the HTTP helpers of util and the callbacks of the
   ListView page *)

\* no list document (the list field of a value that is not a list; as an
\* element of an array, null)
NoList == [_id |-> 0, title |-> ""]

\* a JavaScript value the page handles: undefined, null, a list document, an
\* array of list documents (or null), or an object with an error field
JValue(kind, list, elems, error) ==
    [kind |-> kind, list |-> list, elems |-> elems, error |-> error]

JUndefined == JValue("undefined", NoList, <<>>, "")
JNull == JValue("null", NoList, <<>>, "")
JList(l) == JValue("list", l, <<>>, "")
JArray(s) == JValue("array", NoList, s, "")
JError(msg) == JValue("error", NoList, <<>>, msg)

\* what fetch did: it threw, or it returned a response with an ok flag and a
\* body that res.json() parses to json, or fails to parse
Response(threw, ok, parses, json) ==
    [threw |-> threw, ok |-> ok, parses |-> parses, json |-> json]

NoResponse == Response(FALSE, FALSE, FALSE, JUndefined)

\* the promise an async function returns
PendingPromise == [state |-> "pending", value |-> JUndefined]
Resolve(v) == [state |-> "resolved", value |-> v]
Reject == [state |-> "rejected", value |-> JUndefined]

\* res.json(), awaited inside try: the parsed body, or the catch's null
AwaitJson(res) == IF res.parses THEN Resolve(res.json) ELSE Resolve(JNull)

\* res.json(), returned without await: the promise of the parsed body, which
\* rejects outside the try when the body does not parse
ReturnJson(res) == IF res.parses THEN Resolve(res.json) ELSE Reject

get(res) == IF res.threw THEN Resolve(JNull) ELSE AwaitJson(res)

post(res) == IF res.threw THEN Resolve(JNull) ELSE AwaitJson(res)

del(res) ==
    IF res.threw THEN Resolve(JNull)
    ELSE IF res.ok THEN ReturnJson(res) ELSE Resolve(JNull)

\* patch is exported by util next to get, post and del
patch(res) == IF res.threw THEN Resolve(JNull) ELSE AwaitJson(res)

\* list?.error, as a condition
HasError(v) == v.kind = "error" /\ v.error # ""

\* lists || []
OrEmpty(v) == IF v.kind = "array" THEN v.elems ELSE <<>>

\* a value as an element of the lists array
AsElem(v) == IF v.kind = "list" THEN v.list ELSE NoList

\* the page renders: every element of lists is a list document (ListNode
\* reads list.title and list._id, which throws for null and unmounts the page)
Renders(v) == v.kind = "array" => \A i \in 1..Len(v.elems) : v.elems[i] # NoList

\* setLists(new) on the state cur: nothing on an unmounted page
SetLists(cur, new) == IF Renders(cur) THEN new ELSE cur

\* the callback of get("/api/lists/all") in the effect
useEffectThen(cur, v) ==
    IF HasError(v) THEN SetLists(cur, JArray(<<>>)) ELSE SetLists(cur, v)

\* the callback of post in submitList; snapshot is the lists of the render
\* whose submitList was called
submitListThen(cur, snapshot, v) ==
    IF HasError(v) THEN cur
    ELSE SetLists(cur, JArray(Append(OrEmpty(snapshot), AsElem(v))))

\* the callback of del in deleteList
deleteListThen(cur, snapshot, id, v) ==
    IF HasError(v) THEN cur
    ELSE SetLists(cur, JArray(SelectSeq(snapshot.elems, LAMBDA l : l._id # id)))

\* the callback of patch in editListName
editListNameThen(cur, snapshot, id, v) ==
    IF HasError(v) THEN cur
    ELSE SetLists(cur, JArray([i \in 1..Len(snapshot.elems) |->
                                 IF snapshot.elems[i]._id = id THEN AsElem(v)
                                 ELSE snapshot.elems[i]]))

\* an HTTP call the page started
Started(op, id, title, snapshot) ==
    [op |-> op, id |-> id, title |-> title, snapshot |-> snapshot,
     stage |-> "sent", loaded |-> FALSE, applied |-> FALSE,
     res |-> NoResponse, promise |-> PendingPromise]

\* the page is not open
NoClient ==
    /\ lists = JUndefined
    /\ calls = <<>>
    /\ serverLists = <<>>
    /\ nextListId = 1

----------------------------------------------------------------------------
(* Requests and the way express runs a chain of checks in front of a handler *)

Clients == {"c1", "c2"}

NoBody == [username |-> Absent, email |-> Absent, password |-> Absent, notifPeriod |-> Absent]
NoQueryString == [username |-> Absent, author |-> Absent]

\* a request as it arrives: the chain has not started
NewRequest(route, chain, body, query, uid) ==
    [status |-> "running", route |-> route, chain |-> chain, body |-> body, query |-> query,
     pos |-> 1, cur |-> Enter(NoUserId), found |-> Null, uid0 |-> uid,
     log |-> <<>>, responses |-> <<>>, handlerRuns |-> 0]

\* no request of this client has arrived yet
IdleRequest ==
    [NewRequest("none", <<>>, NoBody, NoQueryString, NoUserId) EXCEPT !.status = "idle"]

\* the check of the chain that is running or waiting
Current(r) == r.chain[r.pos]

\* the request after its current check has returned in state o: what the
\* check did is logged, its responses are sent, and the chain goes on to
\* the next step if and only if the check called next
Returned(r, name, o, uidBefore) ==
    [r EXCEPT !.log = Append(@, [check |-> name, nextCalls |-> o.nextCalls,
                                 responses |-> o.responses, lookups |-> o.lookups,
                                 uidBefore |-> uidBefore, uidAfter |-> o.uid]),
              !.responses = @ \o o.responses,
              !.pos = IF o.nextCalls > 0 THEN @ + 1 ELSE @,
              !.status = IF o.nextCalls > 0 THEN "running" ELSE "done",
              !.cur = Enter(NoUserId),
              !.found = Null]

\* express has reached the check called name and calls it
AtCheck(c, name) ==
    /\ reqs[c].status = "running"
    /\ reqs[c].pos <= Len(reqs[c].chain)
    /\ Current(reqs[c]) = name

\* the check called name is waiting for its look-up
Awaiting(c, name) ==
    /\ reqs[c].status = "awaiting"
    /\ Current(reqs[c]) = name

\* the number of responses with status 500 among those a check wrote
Count500(o) == Cardinality({i \in 1..Len(o.responses) : o.responses[i].status = 500})

\* the check returns: the session keeps what the check left in it
Complete(c, name, o) ==
    /\ session' = [session EXCEPT ![c] = o.uid]
    /\ reqs' = [reqs EXCEPT ![c] = Returned(@, name, o, session[c])]
    /\ rejected500' = [rejected500 EXCEPT ![c] = @ + Count500(o)]

\* the check waits for its look-up, which the store answers from its content
Suspend(c, o) ==
    /\ reqs' = [reqs EXCEPT ![c].status = "awaiting", ![c].cur = o,
                            ![c].found = Exec(o.pending, users)]
    /\ UNCHANGED <<session, rejected500>>

\* the check has run to its return or to its await
Proceed(c, name, o) ==
    IF o.pending.op = "none" THEN Complete(c, name, o) ELSE Suspend(c, o)

isCurrentSessionUserExistsStep(c) ==
    /\ AtCheck(c, "isCurrentSessionUserExists")
    /\ Proceed(c, "isCurrentSessionUserExists", isCurrentSessionUserExists(reqs[c], Enter(session[c])))
    /\ UNCHANGED <<users, nextId, served, nonServerVars>>

isCurrentSessionUserExistsResume(c) ==
    /\ Awaiting(c, "isCurrentSessionUserExists")
    /\ Complete(c, "isCurrentSessionUserExists",
                isCurrentSessionUserExistsAfterAwait(reqs[c], Resumed(reqs[c].cur), reqs[c].found))
    /\ UNCHANGED <<users, nextId, served, nonServerVars>>

isValidUsernameStep(c) ==
    /\ AtCheck(c, "isValidUsername")
    /\ Complete(c, "isValidUsername", isValidUsername(reqs[c], Enter(session[c])))
    /\ UNCHANGED <<users, nextId, served, nonServerVars>>

isValidEmailStep(c) ==
    /\ AtCheck(c, "isValidEmail")
    /\ Complete(c, "isValidEmail", isValidEmail(reqs[c], Enter(session[c])))
    /\ UNCHANGED <<users, nextId, served, nonServerVars>>

isValidPasswordStep(c) ==
    /\ AtCheck(c, "isValidPassword")
    /\ Complete(c, "isValidPassword", isValidPassword(reqs[c], Enter(session[c])))
    /\ UNCHANGED <<users, nextId, served, nonServerVars>>

isValidPeriodStep(c) ==
    /\ AtCheck(c, "isValidPeriod")
    /\ Complete(c, "isValidPeriod", isValidPeriod(reqs[c], Enter(session[c])))
    /\ UNCHANGED <<users, nextId, served, nonServerVars>>

isAccountExistsStep(c) ==
    /\ AtCheck(c, "isAccountExists")
    /\ Proceed(c, "isAccountExists", isAccountExists(reqs[c], Enter(session[c])))
    /\ UNCHANGED <<users, nextId, served, nonServerVars>>

isAccountExistsResume(c) ==
    /\ Awaiting(c, "isAccountExists")
    /\ Complete(c, "isAccountExists",
                isAccountExistsAfterAwait(reqs[c], Resumed(reqs[c].cur), reqs[c].found))
    /\ UNCHANGED <<users, nextId, served, nonServerVars>>

isUsernameNotAlreadyInUseStep(c) ==
    /\ AtCheck(c, "isUsernameNotAlreadyInUse")
    /\ Proceed(c, "isUsernameNotAlreadyInUse", isUsernameNotAlreadyInUse(reqs[c], Enter(session[c])))
    /\ UNCHANGED <<users, nextId, served, nonServerVars>>

isUsernameNotAlreadyInUseResume(c) ==
    /\ Awaiting(c, "isUsernameNotAlreadyInUse")
    /\ Complete(c, "isUsernameNotAlreadyInUse",
                isUsernameNotAlreadyInUseAfterAwait(reqs[c], Resumed(reqs[c].cur), reqs[c].found))
    /\ UNCHANGED <<users, nextId, served, nonServerVars>>

isUserLoggedInStep(c) ==
    /\ AtCheck(c, "isUserLoggedIn")
    /\ Complete(c, "isUserLoggedIn", isUserLoggedIn(reqs[c], Enter(session[c])))
    /\ UNCHANGED <<users, nextId, served, nonServerVars>>

isUserLoggedOutStep(c) ==
    /\ AtCheck(c, "isUserLoggedOut")
    /\ Complete(c, "isUserLoggedOut", isUserLoggedOut(reqs[c], Enter(session[c])))
    /\ UNCHANGED <<users, nextId, served, nonServerVars>>

isEmailNotAlreadyInUseStep(c) ==
    /\ AtCheck(c, "isEmailNotAlreadyInUse")
    /\ Proceed(c, "isEmailNotAlreadyInUse", isEmailNotAlreadyInUse(reqs[c], Enter(session[c])))
    /\ UNCHANGED <<users, nextId, served, nonServerVars>>

isEmailNotAlreadyInUseResume(c) ==
    /\ Awaiting(c, "isEmailNotAlreadyInUse")
    /\ Complete(c, "isEmailNotAlreadyInUse",
                isEmailNotAlreadyInUseAfterAwait(reqs[c], Resumed(reqs[c].cur), reqs[c].found))
    /\ UNCHANGED <<users, nextId, served, nonServerVars>>

isUsernameExistsStep(c) ==
    /\ AtCheck(c, "isUsernameExists")
    /\ Proceed(c, "isUsernameExists", isUsernameExists(reqs[c], Enter(session[c])))
    /\ UNCHANGED <<users, nextId, served, nonServerVars>>

isUsernameExistsResume(c) ==
    /\ Awaiting(c, "isUsernameExists")
    /\ Complete(c, "isUsernameExists",
                isUsernameExistsAfterAwait(reqs[c], Resumed(reqs[c].cur), reqs[c].found))
    /\ UNCHANGED <<users, nextId, served, nonServerVars>>

\* every check of the chain has called next: the route handler runs
HandlerReached(r) == r.status = "running" /\ r.pos = Len(r.chain) + 1

\* the request after its handler has answered
Handled(r, status) ==
    [r EXCEPT !.handlerRuns = @ + 1,
              !.responses = Append(@, [status |-> status, error |-> ErrStr("")]),
              !.status = "done"]

\* a route handler that changes neither the user collection nor the session
routeHandler(c) ==
    /\ HandlerReached(reqs[c])
    /\ reqs[c].route = "generic"
    /\ reqs' = [reqs EXCEPT ![c] = Handled(@, 200)]
    /\ UNCHANGED <<users, nextId, session, served, rejected500, nonServerVars>>

\* the steps of the middleware: the format validators
ValidatorSteps(c) ==
    \/ isValidUsernameStep(c)
    \/ isValidEmailStep(c)
    \/ isValidPasswordStep(c)
    \/ isValidPeriodStep(c)

\* the steps of the middleware: the checks of session and store
GateSteps(c) ==
    \/ isCurrentSessionUserExistsStep(c)
    \/ isCurrentSessionUserExistsResume(c)
    \/ isAccountExistsStep(c)
    \/ isAccountExistsResume(c)
    \/ isUsernameNotAlreadyInUseStep(c)
    \/ isUsernameNotAlreadyInUseResume(c)
    \/ isUserLoggedInStep(c)
    \/ isUserLoggedOutStep(c)
    \/ isEmailNotAlreadyInUseStep(c)
    \/ isEmailNotAlreadyInUseResume(c)
    \/ isUsernameExistsStep(c)
    \/ isUsernameExistsResume(c)

----------------------------------------------------------------------------
(* Sample data *)

Bob == <<"b","o","b">>
Alice == <<"a","l","i","c","e","_","9","2">>
BobEmail == <<"b","@","x",".","i","o">>
AliceEmail == <<"a","@","b",".","c","o","m">>
BobPassword == <<"p","w","1">>
AlicePassword == <<"p","w","2">>
Daily == <<"d","a","i","l","y">>
Yearly == <<"y","e","a","r","l","y">>

UBob == [id |-> 1, username |-> Bob, email |-> BobEmail, password |-> BobPassword]
UAlice == [id |-> 2, username |-> Alice, email |-> AliceEmail, password |-> AlicePassword]

UsernameInputs == {Absent, <<>>, Bob, Alice, <<"b"," ","b">>}
EmailInputs == {Absent, <<>>, BobEmail, AliceEmail, <<"b","o","b">>}
PasswordInputs == {Absent, <<>>, BobPassword, AlicePassword, <<"p"," ","w">>}
PeriodInputs == {Absent, <<>>, Daily, Yearly}
QueryInputs == {Absent, <<>>, Bob, Alice}
AuthorInputs == {Absent, Bob}

\* the fields of the request each check reads
ReadsBody(name) ==
    CASE name \in {"isValidUsername", "isUsernameNotAlreadyInUse"} -> {"username"}
      [] name \in {"isValidEmail", "isEmailNotAlreadyInUse"} -> {"email"}
      [] name = "isValidPassword" -> {"password"}
      [] name = "isValidPeriod" -> {"notifPeriod"}
      [] name = "isAccountExists" -> {"email", "password"}
      [] OTHER -> {}

ChainReads(chain) == UNION {ReadsBody(chain[i]) : i \in 1..Len(chain)}

\* the bodies that send, of the fields the chain reads, any sample value, and
\* no other field
Bodies(chain) ==
    {b \in [username : UsernameInputs, email : EmailInputs,
            password : PasswordInputs, notifPeriod : PeriodInputs] :
        \A f \in {"username", "email", "password", "notifPeriod"} \ ChainReads(chain) :
            b[f] = Absent}

Queries(chain) ==
    IF \E i \in 1..Len(chain) : chain[i] = "isUsernameExists"
    THEN [username : QueryInputs, author : AuthorInputs]
    ELSE {NoQueryString}

\* the chains of at most n distinct checks
Chains(n) ==
    {ch \in UNION {[1..k -> CheckNames] : k \in 1..n} :
        \A i, j \in 1..Len(ch) : i # j => ch[i] # ch[j]}

----------------------------------------------------------------------------
(* SpecChain: one request of client c1, with any chain of checks, any sample
   body, any session state and any content of the user collection *)

InitChain ==
    /\ users \in SUBSET {UBob, UAlice}
    /\ nextId = 3
    /\ served = 1
    /\ rejected500 = [c \in Clients |-> 0]
    /\ NoItems
    /\ NoClient
    /\ \E uid \in {NoUserId, 1, 2}, chain \in Chains(MaxChain) :
        \E body \in Bodies(chain), query \in Queries(chain) :
            /\ session = [c \in Clients |-> IF c = "c1" THEN uid ELSE NoUserId]
            /\ reqs = [c \in Clients |->
                         IF c = "c1" THEN NewRequest("generic", chain, body, query, uid)
                         ELSE IdleRequest]

NextChain == \E c \in Clients : ValidatorSteps(c) \/ GateSteps(c) \/ routeHandler(c)

SpecChain == InitChain /\ [][NextChain]_vars

----------------------------------------------------------------------------
(* SpecFormat: one request of client c1 through one format validator, the
   validated field being absent, a sample, or any string over Alphabet of at
   most MaxStrLen characters *)

Alphabet == {"a", "@", ".", " "}

Strings(n) == UNION {[1..k -> Alphabet] : k \in 0..n}

FormatSamples ==
    UsernameInputs \cup EmailInputs \cup PasswordInputs \cup PeriodInputs
    \cup validPeriod
    \cup { <<"a","@","b","c","d","e","f","g">>, <<"a","@","b","\n","c","o">>,
           <<"a","-","b">>, <<"p","\t","w">>, <<"a",VerticalTab,"b">>,
           <<"a",NoBreakSpace,"b">>, <<"a",OghamSpace,"b">>, <<"a",ByteOrderMark,"b">>,
           <<"a","@","b",".","c">>,
           <<"a",".","b","@","c","-","d",".","e",".","i","n","f","o">>,
           <<"a","@","b",".","c","o","m","m","a">> }

\* the body field a validator reads
FieldOf(name) ==
    CASE name = "isValidUsername" -> "username"
      [] name = "isValidEmail" -> "email"
      [] name = "isValidPassword" -> "password"
      [] name = "isValidPeriod" -> "notifPeriod"

InitFormat ==
    /\ users = {}
    /\ nextId = 1
    /\ served = 1
    /\ rejected500 = [c \in Clients |-> 0]
    /\ NoItems
    /\ NoClient
    /\ session = [c \in Clients |-> NoUserId]
    /\ \E name \in Validators, v \in Strings(MaxStrLen) \cup FormatSamples :
        reqs = [c \in Clients |->
                  IF c = "c1"
                  THEN NewRequest("generic", <<name>>, [NoBody EXCEPT ![FieldOf(name)] = v],
                                  NoQueryString, NoUserId)
                  ELSE IdleRequest]

NextFormat == \E c \in Clients : ValidatorSteps(c) \/ routeHandler(c)

SpecFormat == InitFormat /\ [][NextFormat]_vars

----------------------------------------------------------------------------
(* Spec: the server.  Two clients, each with its own session, send requests
   to the account routes; the steps of their chains and handlers interleave,
   each look-up, insert, update and delete of the store being atomic.  The
   routes and their handlers are those the specification describes. *)

Routes == {"createAccount", "updateProfile", "login", "logout", "deleteAccount", "generic"}

\* the chain of checks in front of each route's handler
RouteChain(route) ==
    CASE route = "createAccount" ->
            <<"isUserLoggedOut", "isValidUsername", "isValidEmail", "isValidPassword",
              "isUsernameNotAlreadyInUse", "isEmailNotAlreadyInUse">>
      [] route = "updateProfile" ->
            <<"isUserLoggedIn", "isValidUsername", "isValidEmail", "isValidPassword",
              "isValidPeriod", "isUsernameNotAlreadyInUse", "isEmailNotAlreadyInUse">>
      [] route = "login" -> <<"isUserLoggedOut", "isAccountExists">>
      [] route = "logout" -> <<"isUserLoggedIn">>
      [] route = "deleteAccount" -> <<"isUserLoggedIn">>
      [] route = "generic" -> <<"isCurrentSessionUserExists", "isUserLoggedIn">>

\* the bodies the clients send to each route
RouteBodies(route) ==
    CASE route = "createAccount" ->
            {[NoBody EXCEPT !.username = n, !.email = m, !.password = BobPassword] :
                n \in {Bob, Alice}, m \in {BobEmail, AliceEmail}}
      [] route = "updateProfile" ->
            {[NoBody EXCEPT !.username = n] : n \in {Bob, Alice}}
            \cup {[NoBody EXCEPT !.email = m, !.notifPeriod = Daily] : m \in {BobEmail, AliceEmail}}
      [] route = "login" ->
            {[NoBody EXCEPT !.email = m, !.password = w] :
                m \in {BobEmail}, w \in {BobPassword, AlicePassword}}
      [] OTHER -> {NoBody}

\* a request of client c arrives, with the session the client's cookie names
Receive(c) ==
    /\ reqs[c].status \in {"idle", "done"}
    /\ served < MaxRequests
    /\ \E route \in Routes : \E body \in RouteBodies(route) :
          reqs' = [reqs EXCEPT ![c] =
                     NewRequest(route, RouteChain(route), body, NoQueryString, session[c])]
    /\ served' = served + 1
    /\ UNCHANGED <<users, nextId, session, rejected500, nonServerVars>>

\* the user document a create-account request inserts
NewUser(id, body) ==
    [id |-> id, username |-> body.username, email |-> body.email, password |-> body.password]

\* a user document with the fields of the body that are sent
Updated(u, body) ==
    [u EXCEPT !.username = IF Truthy(body.username) THEN body.username ELSE @,
              !.email = IF Truthy(body.email) THEN body.email ELSE @,
              !.password = IF Truthy(body.password) THEN body.password ELSE @]

\* POST users: inserts the new user document
createAccount(c) ==
    /\ HandlerReached(reqs[c])
    /\ reqs[c].route = "createAccount"
    /\ nextId <= MaxUsers
    /\ users' = users \cup {NewUser(nextId, reqs[c].body)}
    /\ nextId' = nextId + 1
    /\ reqs' = [reqs EXCEPT ![c] = Handled(@, 201)]
    /\ UNCHANGED <<session, served, rejected500, nonServerVars>>

\* PATCH users: updates the document of the session's user
updateProfile(c) ==
    /\ HandlerReached(reqs[c])
    /\ reqs[c].route = "updateProfile"
    /\ users' = {IF u.id = session[c] THEN Updated(u, reqs[c].body) ELSE u : u \in users}
    /\ reqs' = [reqs EXCEPT ![c] = Handled(@, 200)]
    /\ UNCHANGED <<nextId, session, served, rejected500, nonServerVars>>

\* POST session: the session gets the identifier of the account
login(c) ==
    /\ HandlerReached(reqs[c])
    /\ reqs[c].route = "login"
    /\ session' = [session EXCEPT ![c] =
                     findOneByEmailAndPassword(users, reqs[c].body.email,
                                               reqs[c].body.password).id]
    /\ reqs' = [reqs EXCEPT ![c] = Handled(@, 201)]
    /\ rejected500' = [rejected500 EXCEPT ![c] = 0]
    /\ UNCHANGED <<users, nextId, served, nonServerVars>>

\* DELETE session: the session loses its user identifier
logout(c) ==
    /\ HandlerReached(reqs[c])
    /\ reqs[c].route = "logout"
    /\ session' = [session EXCEPT ![c] = NoUserId]
    /\ reqs' = [reqs EXCEPT ![c] = Handled(@, 200)]
    /\ UNCHANGED <<users, nextId, served, rejected500, nonServerVars>>

\* DELETE users: removes the document of the session's user and logs out
deleteAccount(c) ==
    /\ HandlerReached(reqs[c])
    /\ reqs[c].route = "deleteAccount"
    /\ users' = {u \in users : u.id # session[c]}
    /\ session' = [session EXCEPT ![c] = NoUserId]
    /\ reqs' = [reqs EXCEPT ![c] = Handled(@, 200)]
    /\ UNCHANGED <<nextId, served, rejected500, nonServerVars>>

\* the steps of the checks the routes use
RouteGateSteps(c) ==
    \/ isCurrentSessionUserExistsStep(c)
    \/ isCurrentSessionUserExistsResume(c)
    \/ isAccountExistsStep(c)
    \/ isAccountExistsResume(c)
    \/ isUsernameNotAlreadyInUseStep(c)
    \/ isUsernameNotAlreadyInUseResume(c)
    \/ isUserLoggedInStep(c)
    \/ isUserLoggedOutStep(c)
    \/ isEmailNotAlreadyInUseStep(c)
    \/ isEmailNotAlreadyInUseResume(c)

Handlers(c) ==
    \/ createAccount(c)
    \/ updateProfile(c)
    \/ login(c)
    \/ logout(c)
    \/ deleteAccount(c)
    \/ routeHandler(c)

Init ==
    /\ users = {}
    /\ nextId = 1
    /\ served = 0
    /\ rejected500 = [c \in Clients |-> 0]
    /\ NoItems
    /\ NoClient
    /\ session = [c \in Clients |-> NoUserId]
    /\ reqs = [c \in Clients |-> IdleRequest]

Next == \E c \in Clients : Receive(c) \/ ValidatorSteps(c) \/ RouteGateSteps(c) \/ Handlers(c)

Spec == Init /\ [][Next]_vars

----------------------------------------------------------------------------
(* SpecSession: the server some time after its start.  The account of Bob has
   been created, and since then deleted or not; each client's session is
   logged out or still carries Bob's identifier (stale, if the account was
   deleted from another session). *)

InitSession ==
    /\ users \in {{}, {UBob}}
    /\ nextId = 2
    /\ served = 0
    /\ rejected500 = [c \in Clients |-> 0]
    /\ NoItems
    /\ NoClient
    /\ session \in [Clients -> {NoUserId, UBob.id}]
    /\ reqs = [c \in Clients |-> IdleRequest]

SpecSession == InitSession /\ [][Next]_vars

----------------------------------------------------------------------------
(* SpecItems: calls of ItemCollection on an empty item collection *)

\* most purchases the specification records
MaxItems == 3

ItemUsers == {UBob.id, UAlice.id}
\* the purchases the calls record: two users, two types, two identifiers,
\* two property bags
ItemOffers ==
    { [userId |-> UBob.id, type |-> "hat", identifier |-> "i1",
       properties |-> [color |-> "red"]],
      [userId |-> UBob.id, type |-> "food", identifier |-> "i2",
       properties |-> [color |-> "blue"]],
      [userId |-> UAlice.id, type |-> "hat", identifier |-> "i1",
       properties |-> [color |-> "red"]] }

\* ItemCollection.addOne(userId, type, identifier, properties), up to its
\* await: the document is built and its save is issued
AddOneCall(userId, type, identifier, properties) ==
    /\ Len(purchases) < MaxItems
    /\ saving' = saving \cup {addOne(Len(purchases) + 1, userId, type, identifier,
                                     properties)}
    /\ purchases' = Append(purchases, [userId |-> userId, type |-> type,
                                       identifier |-> identifier,
                                       properties |-> properties])
    /\ UNCHANGED <<items, added, listing, serverVars, clientVars>>

\* the store carries out the save of the document with identifier id, in any
\* order among the pending saves; its addOne is still suspended at the await
AddOneSave(id) ==
    /\ \E purchased \in saving :
          /\ purchased._id = id
          /\ items' = Save(items, purchased)
          /\ saving' = saving \ {purchased}
    /\ UNCHANGED <<purchases, added, listing, serverVars, clientVars>>

\* addOne resumes after its await and returns the document with identifier id
AddOneResume(id) ==
    /\ id \in ItemIds(items) \ added
    /\ added' = added \cup {id}
    /\ UNCHANGED <<items, purchases, saving, listing, serverVars, clientVars>>

\* ItemCollection.findItemsById(userId) is called and returns the promise of
\* the query; an earlier call still under way is no longer followed
FindItemsByIdCall(userId) ==
    /\ listing' = Listing("called", userId, <<>>, added, 0)
    /\ UNCHANGED <<items, purchases, saving, added, serverVars, clientVars>>

\* the store carries out the query of the call
FindItemsByIdRead ==
    /\ listing.stage = "called"
    /\ listing' = [listing EXCEPT !.stage = "read",
                                  !.docs = findItemsById(items, listing.userId)]
    /\ UNCHANGED <<items, purchases, saving, added, serverVars, clientVars>>

\* the answer of the store reaches the caller of findItemsById
FindItemsByIdResume ==
    /\ listing.stage = "read"
    /\ listing' = [listing EXCEPT !.stage = "answered", !.upto = Len(purchases)]
    /\ UNCHANGED <<items, purchases, saving, added, serverVars, clientVars>>

\* no account, no session, no request
ServerIdle ==
    /\ users = {}
    /\ nextId = 1
    /\ served = 0
    /\ rejected500 = [c \in Clients |-> 0]
    /\ session = [c \in Clients |-> NoUserId]
    /\ reqs = [c \in Clients |-> IdleRequest]

InitItems == ServerIdle /\ NoItems /\ NoClient

NextItems ==
    \/ \E offer \in ItemOffers :
          AddOneCall(offer.userId, offer.type, offer.identifier, offer.properties)
    \/ \E id \in 1..MaxItems : AddOneSave(id)
    \/ \E id \in 1..MaxItems : AddOneResume(id)
    \/ \E userId \in ItemUsers : FindItemsByIdCall(userId)
    \/ FindItemsByIdRead
    \/ FindItemsByIdResume

SpecItems == InitItems /\ [][NextItems]_vars

----------------------------------------------------------------------------
(* SpecClient: the ListView page from its first render, the list routes that
   answer it and the network in between *)

\* most HTTP calls the page starts, the effect's get included
MaxCalls == 3

Titles == {"a", "b"}

ListIds(s) == {s[i]._id : i \in 1..Len(s)}

\* the routes of the list collection: what the collection becomes and what
\* the response carries
Serve(call, db, fresh) ==
    LET i == CHOOSE i \in 1..Len(db) : db[i]._id = call.id
        created == [_id |-> fresh, title |-> call.title]
        renamed == [_id |-> call.id, title |-> call.title]
        missing == [ok |-> FALSE, db |-> db, fresh |-> fresh, json |-> JError("not found")]
    IN  CASE call.op = "get" ->
               [ok |-> TRUE, db |-> db, fresh |-> fresh, json |-> JArray(db)]
          [] call.op = "post" ->
               [ok |-> TRUE, db |-> Append(db, created), fresh |-> fresh + 1,
                json |-> JList(created)]
          [] call.op = "del" ->
               IF call.id \notin ListIds(db) THEN missing
               ELSE [ok |-> TRUE, db |-> SelectSeq(db, LAMBDA l : l._id # call.id),
                     fresh |-> fresh, json |-> JList(db[i])]
          [] call.op = "patch" ->
               IF call.id \notin ListIds(db) THEN missing
               ELSE [ok |-> TRUE, db |-> [db EXCEPT ![i] = renamed],
                     fresh |-> fresh, json |-> JList(renamed)]

\* the page starts a call; loaded records whether the callback of the
\* effect's get had run by then
Start(call) ==
    /\ Len(calls) < MaxCalls
    /\ Renders(lists)
    /\ calls' = Append(calls, [call EXCEPT !.loaded = calls[1].stage = "done"])
    /\ UNCHANGED <<lists, serverLists, nextListId, serverVars, itemVars>>

\* a click on Create List, with title typed in the text field
submitList(title) ==
    /\ title \in Titles
    /\ Start(Started("post", 0, title, lists))

\* a click on the Delete icon of the node of list id, confirmed
deleteList(id) ==
    /\ lists.kind = "array"
    /\ id \in ListIds(lists.elems)
    /\ Start(Started("del", id, "", lists))

\* a click on Save in the node of list id, with title typed
editListName(id, title) ==
    /\ lists.kind = "array"
    /\ id \in ListIds(lists.elems)
    /\ Start(Started("patch", id, title, lists))

Answer(k, applied, res) ==
    calls' = [calls EXCEPT ![k] = [@ EXCEPT !.stage = "fetched",
                                            !.applied = applied, !.res = res]]

\* the request of call k never gets an answer: fetch throws
NetworkFailure(k) ==
    /\ k \in 1..Len(calls)
    /\ calls[k].stage = "sent"
    /\ Answer(k, FALSE, Response(TRUE, FALSE, FALSE, JUndefined))
    /\ UNCHANGED <<lists, serverLists, nextListId, serverVars, itemVars>>

\* the server refuses the request of call k: an error body, with a status
\* that is not OK or with one that is; or a response that is not OK and whose
\* body is not JSON
Refuse(k) ==
    /\ k \in 1..Len(calls)
    /\ calls[k].stage = "sent"
    /\ \E ok \in BOOLEAN, parses \in BOOLEAN :
          /\ ok => parses
          /\ Answer(k, FALSE, Response(FALSE, ok, parses,
                                       IF parses THEN JError("refused") ELSE JUndefined))
    /\ UNCHANGED <<lists, serverLists, nextListId, serverVars, itemVars>>

\* the route of call k runs; its response carries the JSON of its result, or
\* a body that is not JSON (an empty one, say)
Handle(k) ==
    /\ k \in 1..Len(calls)
    /\ calls[k].stage = "sent"
    /\ LET s == Serve(calls[k], serverLists, nextListId)
       IN  /\ serverLists' = s.db
           /\ nextListId' = s.fresh
           /\ \E parses \in BOOLEAN :
                 /\ ~s.ok => parses
                 /\ Answer(k, s.ok, Response(FALSE, s.ok, parses,
                                             IF parses THEN s.json ELSE JUndefined))
    /\ UNCHANGED <<lists, serverVars, itemVars>>

\* the promise of call k's helper settles and, when it resolves, the
\* callback passed to then runs
Settle(k, op, promise, after) ==
    /\ calls[k].stage = "fetched"
    /\ calls[k].op = op
    /\ calls' = [calls EXCEPT ![k] = [@ EXCEPT !.stage = "done", !.promise = promise]]
    /\ lists' = IF promise.state = "resolved" THEN after ELSE lists
    /\ UNCHANGED <<serverLists, nextListId, serverVars, itemVars>>

useEffectSettles(k) ==
    /\ k \in 1..Len(calls)
    /\ LET p == get(calls[k].res)
       IN  Settle(k, "get", p, useEffectThen(lists, p.value))

submitListSettles(k) ==
    /\ k \in 1..Len(calls)
    /\ LET p == post(calls[k].res)
       IN  Settle(k, "post", p, submitListThen(lists, calls[k].snapshot, p.value))

deleteListSettles(k) ==
    /\ k \in 1..Len(calls)
    /\ LET p == del(calls[k].res)
       IN  Settle(k, "del", p, deleteListThen(lists, calls[k].snapshot, calls[k].id, p.value))

editListNameSettles(k) ==
    /\ k \in 1..Len(calls)
    /\ LET p == patch(calls[k].res)
       IN  Settle(k, "patch", p,
              editListNameThen(lists, calls[k].snapshot, calls[k].id, p.value))

\* the first render: lists is undefined and the effect has called get; the
\* server holds no list, or one
InitClient ==
    /\ ServerIdle
    /\ NoItems
    /\ lists = JUndefined
    /\ calls = <<Started("get", 0, "", JUndefined)>>
    /\ serverLists \in {<<>>, <<[_id |-> 1, title |-> "a"]>>}
    /\ nextListId = Len(serverLists) + 1

NextClient ==
    \/ \E title \in Titles : submitList(title)
    \/ \E id \in 1..MaxCalls : deleteList(id)
    \/ \E id \in 1..MaxCalls, title \in Titles : editListName(id, title)
    \/ \E k \in 1..MaxCalls :
          \/ NetworkFailure(k)
          \/ Refuse(k)
          \/ Handle(k)
          \/ useEffectSettles(k)
          \/ submitListSettles(k)
          \/ deleteListSettles(k)
          \/ editListNameSettles(k)

SpecClient == InitClient /\ [][NextClient]_vars

----------------------------------------------------------------------------
(* Vocabulary of the properties *)

\* the run of a check called next once and wrote nothing
Passed(e) == e.nextCalls = 1 /\ e.responses = <<>>

\* the run of a check wrote one response and did not call next
Rejected(e) == e.nextCalls = 0 /\ Len(e.responses) = 1

\* the run of a check wrote exactly this response and did not call next
RejectedWith(e, status, error) ==
    e.nextCalls = 0 /\ e.responses = <<[status |-> status, error |-> error]>>

Range(f) == {f[i] : i \in DOMAIN f}

\* the orderings of the checks of a chain
Orderings(chain) ==
    {p \in [1..Len(chain) -> Range(chain)] : \A i, j \in 1..Len(chain) : i # j => p[i] # p[j]}

\* a chain run from its i-th check on, with no change of the store meanwhile:
\* whether the handler is reached, and the status of the rejection if not
RECURSIVE ChainOutcome(_, _, _, _, _)
ChainOutcome(chain, i, req, uid, db) ==
    IF i > Len(chain) THEN [accepted |-> TRUE, status |-> 200]
    ELSE LET o == RunCheck(chain[i], req, uid, db)
         IN  IF o.nextCalls > 0 THEN ChainOutcome(chain, i + 1, req, o.uid, db)
             ELSE [accepted |-> FALSE,
                   status |-> IF o.responses = <<>> THEN 0 ELSE o.responses[1].status]

----------------------------------------------------------------------------
(* C1 *)

\* C1: every run of every check ends either having called next exactly once
\* and written no response, or having written exactly one response and never
\* called next; a check that is still awaiting its look-up has done neither.
C1_NextXorResponse ==
    \A c \in Clients :
        /\ \A i \in 1..Len(reqs[c].log) : Passed(reqs[c].log[i]) \/ Rejected(reqs[c].log[i])
        /\ reqs[c].status = "awaiting" =>
              reqs[c].cur.nextCalls = 0 /\ reqs[c].cur.responses = <<>>

\* a chain whose first check passed and whose second check rejected
C1_Witness ==
    \E c \in Clients :
        /\ Len(reqs[c].log) = 2
        /\ Passed(reqs[c].log[1])
        /\ Rejected(reqs[c].log[2])
        /\ reqs[c].log[2].check \in AsyncChecks

----------------------------------------------------------------------------
(* C2 *)

LoginRequired(r) == \E i \in 1..Len(r.chain) : r.chain[i] = "isUserLoggedIn"

\* C2 as stated: a request of a session without user identifier to a route
\* whose chain contains isUserLoggedIn is answered 403 and never reaches the
\* handler, whatever the other checks and their order.
C2_Original ==
    \A c \in Clients :
        (reqs[c].status = "done" /\ reqs[c].uid0 = NoUserId /\ LoginRequired(reqs[c])) =>
            /\ reqs[c].handlerRuns = 0
            /\ Len(reqs[c].responses) = 1
            /\ reqs[c].responses[1].status = 403

\* C2 amended: such a request never reaches the handler and is answered by
\* exactly one error response, that of the first check of the chain that
\* rejects: 403 when the chain gets as far as isUserLoggedIn, and the status of
\* the earlier rejecting check (400, 401, 404 or 409) otherwise.
C2_NoHandlerFirstRejection ==
    \A c \in Clients :
        (reqs[c].uid0 = NoUserId /\ LoginRequired(reqs[c])) =>
            /\ reqs[c].handlerRuns = 0
            /\ ~HandlerReached(reqs[c])
            /\ reqs[c].status = "done" =>
                  LET last == reqs[c].log[Len(reqs[c].log)]
                  IN  /\ Len(reqs[c].responses) = 1
                      /\ reqs[c].responses = last.responses
                      /\ \A i \in 1..(Len(reqs[c].log) - 1) : Passed(reqs[c].log[i])
                      /\ IF last.check = "isUserLoggedIn"
                         THEN reqs[c].responses[1].status = 403
                         ELSE reqs[c].responses[1].status \in {400, 401, 404, 409}

\* a logged-out request stopped at isUserLoggedIn after an earlier check passed
C2_Witness ==
    \E c \in Clients :
        /\ reqs[c].status = "done"
        /\ reqs[c].uid0 = NoUserId
        /\ Len(reqs[c].log) = 2
        /\ reqs[c].log[2].check = "isUserLoggedIn"
        /\ reqs[c].responses[1].status = 403
        /\ reqs[c].handlerRuns = 0

----------------------------------------------------------------------------
(* C3 *)

\* the session names a user the collection does not hold
Stale(uid, db) == uid # NoUserId /\ ~\E u \in db : u.id = uid

\* C3: isCurrentSessionUserExists, run on a session whose user identifier names
\* no user of the collection, sets the identifier to undefined, responds 500
\* "User session was not recognized." and does not call next; in every other
\* case it calls next and leaves the session as it was.
C3_SessionLiveness ==
    \A c \in Clients : \A i \in 1..Len(reqs[c].log) :
        LET e == reqs[c].log[i]
        IN  e.check = "isCurrentSessionUserExists" =>
              /\ IF Stale(e.uidBefore, users)
                 THEN /\ e.uidAfter = NoUserId
                      /\ RejectedWith(e, 500, ErrObj("userNotFound",
                                                     "User session was not recognized."))
                 ELSE Passed(e) /\ e.uidAfter = e.uidBefore
              /\ i = Len(reqs[c].log) => session[c] = e.uidAfter

\* the check has cleared a stale session and answered 500
C3_Witness ==
    \E c \in Clients : \E i \in 1..Len(reqs[c].log) :
        /\ reqs[c].log[i].check = "isCurrentSessionUserExists"
        /\ Stale(reqs[c].log[i].uidBefore, users)
        /\ session[c] = NoUserId
        /\ reqs[c].responses[1].status = 500

----------------------------------------------------------------------------
(* C4 *)

\* another user than the session's owns the value of the field
OwnedByOther(db, field, value, uid) == \E u \in db : u[field] = value /\ u.id # uid

UniquenessField(name) ==
    IF name = "isUsernameNotAlreadyInUse" THEN "username" ELSE "email"

\* C4: isUsernameNotAlreadyInUse (isEmailNotAlreadyInUse), for a username
\* (email) sent in the body, responds 409 if and only if a user document with
\* that value exists whose identifier differs from the session's; otherwise
\* (nobody owns it, or the session's user owns it) it calls next.
C4_Uniqueness ==
    \A c \in Clients : \A i \in 1..Len(reqs[c].log) :
        LET e == reqs[c].log[i]
            value == reqs[c].body[UniquenessField(e.check)]
        IN  (e.check \in {"isUsernameNotAlreadyInUse", "isEmailNotAlreadyInUse"}
             /\ value # Absent) =>
                IF OwnedByOther(users, UniquenessField(e.check), value, e.uidBefore)
                THEN Rejected(e) /\ e.responses[1].status = 409
                ELSE Passed(e)

\* the owner of a username re-submits it and passes
C4_Witness ==
    \E c \in Clients : \E i \in 1..Len(reqs[c].log) :
        LET e == reqs[c].log[i]
        IN  /\ e.check = "isUsernameNotAlreadyInUse"
            /\ \E u \in users : u.username = reqs[c].body.username /\ u.id = e.uidBefore
            /\ Passed(e)

----------------------------------------------------------------------------
(* C6 *)

\* C6: isAccountExists responds 400 without any look-up when email or password
\* is missing, the message naming email when email is missing and password
\* otherwise; with both sent it calls next if and only if a user document with
\* exactly that email and password exists, and responds 401 "Invalid user
\* login credentials provided." if none does.
C6_AccountExists ==
    \A c \in Clients : \A i \in 1..Len(reqs[c].log) :
        LET e == reqs[c].log[i]
            b == reqs[c].body
        IN  e.check = "isAccountExists" =>
              IF ~Truthy(b.email)
              THEN /\ RejectedWith(e, 400, ErrStr("Missing email credentials for sign in."))
                   /\ e.lookups = 0
              ELSE IF ~Truthy(b.password)
              THEN /\ RejectedWith(e, 400, ErrStr("Missing password credentials for sign in."))
                   /\ e.lookups = 0
              ELSE IF \E u \in users : u.email = b.email /\ u.password = b.password
              THEN Passed(e)
              ELSE RejectedWith(e, 401, ErrStr("Invalid user login credentials provided."))

\* the email of an account with a password that is not its password: 401
C6_Witness ==
    \E c \in Clients : \E i \in 1..Len(reqs[c].log) :
        LET e == reqs[c].log[i]
            b == reqs[c].body
        IN  /\ e.check = "isAccountExists"
            /\ Truthy(b.password)
            /\ \E u \in users : u.email = b.email /\ u.password # b.password
            /\ Rejected(e)
            /\ e.responses[1].status = 401

----------------------------------------------------------------------------
(* C7 *)

\* C7: isValidUsername responds 400 with an error object keyed "username" and
\* does not call next for every username sent in the body that does not match
\* ^\w+$, the empty string included, and calls next for every username that
\* matches.
C7_UsernameFormat ==
    \A c \in Clients : \A i \in 1..Len(reqs[c].log) :
        LET e == reqs[c].log[i]
            username == reqs[c].body.username
        IN  (e.check = "isValidUsername" /\ username # Absent) =>
              IF usernameRegex(username)
              THEN Passed(e)
              ELSE /\ Rejected(e)
                   /\ e.responses[1].status = 400
                   /\ e.responses[1].error.type = "object"
                   /\ e.responses[1].error.key = "username"

----------------------------------------------------------------------------
(* C8 *)

\* local@domain.tld: a local part, "@", one or more labels each followed by a
\* literal dot, and a last label of 2 to 4 characters
EmailForm(s) == EmailMatches(s, TRUE)

\* C8: isValidEmail responds 400 and does not call next for every email sent
\* in the body that is not of the form local@domain.tld, and "a@b.com" passes.
C8_EmailFormat ==
    \A c \in Clients : \A i \in 1..Len(reqs[c].log) :
        LET e == reqs[c].log[i]
            email == reqs[c].body.email
        IN  (e.check = "isValidEmail" /\ Truthy(email)) =>
              /\ ~EmailForm(email) => Rejected(e) /\ e.responses[1].status = 400
              /\ email = AliceEmail => Passed(e)

----------------------------------------------------------------------------
(* C9 *)

\* C9 as stated: a rejection by one of the four format validators has status
\* 400 and an error body that is an object keyed by the offending field.
C9_Original ==
    \A c \in Clients : \A i \in 1..Len(reqs[c].log) :
        LET e == reqs[c].log[i]
        IN  (e.check \in Validators /\ ~Passed(e)) =>
              /\ Rejected(e)
              /\ e.responses[1].status = 400
              /\ e.responses[1].error.type = "object"
              /\ e.responses[1].error.key = FieldOf(e.check)

\* C9 amended: a rejection by one of the four format validators has status
\* 400; the error body is an object keyed "username" for isValidUsername and a
\* plain message string, with no field key, for isValidEmail, isValidPassword
\* and isValidPeriod.
C9_ValidatorRejection ==
    \A c \in Clients : \A i \in 1..Len(reqs[c].log) :
        LET e == reqs[c].log[i]
        IN  (e.check \in Validators /\ ~Passed(e)) =>
              /\ Rejected(e)
              /\ e.responses[1].status = 400
              /\ IF e.check = "isValidUsername"
                 THEN /\ e.responses[1].error.type = "object"
                      /\ e.responses[1].error.key = "username"
                 ELSE e.responses[1].error.type = "string"

\* the username validator has rejected a request after another validator
\* passed it
C9_Witness ==
    \E c \in Clients :
        /\ Len(reqs[c].log) = 2
        /\ reqs[c].log[1].check \in Validators
        /\ reqs[c].log[2].check = "isValidUsername"
        /\ Rejected(reqs[c].log[2])

----------------------------------------------------------------------------
(* C10 *)

\* C10: with no change of the store in between, a request reaches the handler
\* under one ordering of the checks of its chain if and only if it reaches it
\* under every other ordering.
C10_OrderIndependent ==
    \A c \in Clients :
        reqs[c].status = "done" =>
            \A p \in Orderings(reqs[c].chain) :
                ChainOutcome(p, 1, reqs[c], reqs[c].uid0, users).accepted
                    = (reqs[c].handlerRuns = 1)

\* a request rejected with one status that another ordering of its chain
\* rejects with another status
C10_Witness ==
    \E c \in Clients :
        /\ reqs[c].status = "done"
        /\ reqs[c].handlerRuns = 0
        /\ Len(reqs[c].responses) = 1
        /\ \E p \in Orderings(reqs[c].chain) :
              LET other == ChainOutcome(p, 1, reqs[c], reqs[c].uid0, users)
              IN  ~other.accepted /\ other.status # reqs[c].responses[1].status

----------------------------------------------------------------------------
(* C5 *)

\* C5: no two user documents of the collection have the same username, and no
\* two have the same email, after any interleaving of create-account and
\* update-profile requests that each pass isUsernameNotAlreadyInUse and
\* isEmailNotAlreadyInUse before their handler writes.
C5_UniqueUsers ==
    \A u, v \in users :
        u.id # v.id => u.username # v.username /\ u.email # v.email

----------------------------------------------------------------------------
(* C11 *)

\* C11: isUsernameExists responds 400 without any look-up when the username
\* query parameter is missing or empty; otherwise it responds 404 if no user
\* has that username and calls next if and only if one has.
C11_UsernameExists ==
    \A c \in Clients : \A i \in 1..Len(reqs[c].log) :
        LET e == reqs[c].log[i]
            q == reqs[c].query.username
        IN  e.check = "isUsernameExists" =>
              IF q = Absent \/ q = <<>>
              THEN /\ RejectedWith(e, 400, ErrStr("Provided username must be nonempty"))
                   /\ e.lookups = 0
              ELSE IF \E u \in users : u.username = q
              THEN Passed(e)
              ELSE Rejected(e) /\ e.responses[1].status = 404

\* a username that no user has is answered 404 after one look-up
C11_Witness ==
    \E c \in Clients : \E i \in 1..Len(reqs[c].log) :
        /\ reqs[c].log[i].check = "isUsernameExists"
        /\ Truthy(reqs[c].query.username)
        /\ reqs[c].log[i].lookups = 1
        /\ Rejected(reqs[c].log[i])
        /\ reqs[c].log[i].responses[1].status = 404

----------------------------------------------------------------------------
(* C12 *)

\* the length the comment of isValidPassword asks of a password
MinPasswordLen == 6
MaxPasswordLen == 50

HasSpace(s) == \E i \in 1..Len(s) : s[i] = " "

\* C12: isValidPassword calls next for a password sent in the body only if it
\* is 6 to 50 characters long and contains no space; every password that is
\* shorter, longer or contains a space is rejected with 400.
C12_PasswordFormat ==
    \A c \in Clients : \A i \in 1..Len(reqs[c].log) :
        LET e == reqs[c].log[i]
            password == reqs[c].body.password
        IN  (e.check = "isValidPassword" /\ Truthy(password)) =>
              IF Len(password) \in MinPasswordLen..MaxPasswordLen /\ ~HasSpace(password)
              THEN Passed(e)
              ELSE Rejected(e) /\ e.responses[1].status = 400

----------------------------------------------------------------------------
(* C13 *)

\* the step is a step of a check of client c's chain (not of its handler)
CheckStepOf(c) ==
    /\ reqs[c].status \in {"running", "awaiting"}
    /\ reqs'[c] # reqs[c]
    /\ reqs'[c].handlerRuns = reqs[c].handlerRuns

\* C13: no step of any check changes the user collection; no step of a check
\* other than isCurrentSessionUserExists changes any session, and
\* isCurrentSessionUserExists changes the session of its request only, only
\* by clearing its user identifier, and only when it rejects with 500.
C13_Frame ==
    [][\A c \in Clients :
          CheckStepOf(c) =>
            /\ users' = users
            /\ \A d \in Clients \ {c} : session'[d] = session[d]
            /\ \/ session'[c] = session[c]
               \/ /\ Current(reqs[c]) = "isCurrentSessionUserExists"
                  /\ session'[c] = NoUserId
                  /\ Len(reqs'[c].responses) = Len(reqs[c].responses) + 1
                  /\ reqs'[c].responses[Len(reqs'[c].responses)].status = 500
                  /\ reqs'[c].status = "done"]_vars

\* a chain whose first check left the session alone and whose second check,
\* isCurrentSessionUserExists, cleared it
C13_Witness ==
    \E c \in Clients :
        /\ Len(reqs[c].log) = 2
        /\ reqs[c].log[1].check # "isCurrentSessionUserExists"
        /\ reqs[c].log[1].uidAfter = reqs[c].log[1].uidBefore
        /\ reqs[c].log[2].check = "isCurrentSessionUserExists"
        /\ reqs[c].log[2].uidBefore # NoUserId
        /\ session[c] = NoUserId

----------------------------------------------------------------------------
(* C15 *)

ChecksOfField ==
    Validators \cup {"isUsernameNotAlreadyInUse", "isEmailNotAlreadyInUse"}

\* the body field a format validator or a uniqueness check is about
AboutField(name) ==
    IF name \in Validators THEN FieldOf(name) ELSE UniquenessField(name)

\* C15: a format validator or uniqueness check whose field the body does not
\* contain calls next, writes no response and performs no look-up; a format
\* validator rejects only when its field is in the body.
C15_AbsentFieldPasses ==
    \A c \in Clients : \A i \in 1..Len(reqs[c].log) :
        LET e == reqs[c].log[i]
        IN  e.check \in ChecksOfField =>
              /\ reqs[c].body[AboutField(e.check)] = Absent => Passed(e) /\ e.lookups = 0
              /\ (e.check \in Validators /\ ~Passed(e)) =>
                    reqs[c].body[AboutField(e.check)] # Absent

\* a uniqueness check passed, without look-up, a body that does not send its
\* field, after a validator rejected nothing either
C15_Witness ==
    \E c \in Clients :
        /\ Len(reqs[c].log) = 2
        /\ reqs[c].log[1].check \in Validators
        /\ reqs[c].log[2].check = "isEmailNotAlreadyInUse"
        /\ reqs[c].body.email = Absent
        /\ Passed(reqs[c].log[1])
        /\ Passed(reqs[c].log[2])
        /\ reqs[c].log[2].lookups = 0

----------------------------------------------------------------------------
(* C14 *)

\* the request of client c did not itself receive a 500
Without500(r) == \A i \in 1..Len(r.responses) : r.responses[i].status # 500

\* C14: once isCurrentSessionUserExists has rejected a request of a session,
\* the session has no user identifier until a login, and every later request
\* of the session is treated as logged out: isCurrentSessionUserExists calls
\* next, isUserLoggedIn responds 403, isUserLoggedOut calls next; so the
\* session receives the 500 at most once.
C14_StaleSessionOnce ==
    \A c \in Clients :
        /\ rejected500[c] <= 1
        /\ rejected500[c] = 1 =>
              /\ session[c] = NoUserId
              /\ Without500(reqs[c]) =>
                    \A i \in 1..Len(reqs[c].log) :
                        LET e == reqs[c].log[i]
                        IN  /\ e.uidBefore = NoUserId
                            /\ e.check = "isCurrentSessionUserExists" => Passed(e)
                            /\ e.check = "isUserLoggedOut" => Passed(e)
                            /\ e.check = "isUserLoggedIn" =>
                                  Rejected(e) /\ e.responses[1].status = 403

\* after the 500, a later request of the same session passed
\* isCurrentSessionUserExists and was answered 403 by isUserLoggedIn
C14_Witness ==
    \E c \in Clients :
        /\ rejected500[c] = 1
        /\ Without500(reqs[c])
        /\ Len(reqs[c].log) = 2
        /\ reqs[c].log[1].check = "isCurrentSessionUserExists"
        /\ Passed(reqs[c].log[1])
        /\ reqs[c].log[2].check = "isUserLoggedIn"
        /\ reqs[c].log[2].responses[1].status = 403

----------------------------------------------------------------------------
(* C16 *)

\* the step is the start of the handler of client c's request to a route
\* gated by isCurrentSessionUserExists followed by isUserLoggedIn
GatedHandlerStarts(c) ==
    /\ HandlerReached(reqs[c])
    /\ reqs[c].chain = <<"isCurrentSessionUserExists", "isUserLoggedIn">>
    /\ reqs'[c].handlerRuns = reqs[c].handlerRuns + 1

\* C16: the handler of a route gated by isCurrentSessionUserExists followed
\* by isUserLoggedIn starts only for a session whose user is in the user
\* collection at that moment, also when another session deletes the account
\* while the request's look-up is awaited.
C16_HandlerUserExists ==
    [][\A c \in Clients :
          GatedHandlerStarts(c) => \E u \in users : u.id = session[c]]_vars

----------------------------------------------------------------------------
(* C17 *)

\* the arguments a document was added with
AddedWith(d) ==
    [userId |-> d.userId, type |-> d.type, identifier |-> d.identifier,
     properties |-> d.properties]

\* among the documents with identifiers in ids, those added for userId
AddedFor(userId, ids) == {i \in ids : purchases[i].userId = userId}

\* C17: the collection holds each document of an addOne call at most once
\* and as it was added, and a document whose addOne has returned stays in it
\* (addOne never changes or removes an existing item).  What findItemsById(u)
\* answered holds, each once and with the type, identifier and properties it
\* was added with, every item whose addOne with userId u had returned when
\* findItemsById was called, and nothing but items of addOne calls with
\* userId u made before the answer; so after a sequence of addOne calls that
\* have all returned it is exactly the items added with userId u.
C17_ItemsOfUser ==
    /\ added \subseteq ItemIds(items)
    /\ ItemIds(items) \cup {d._id : d \in saving} = 1..Len(purchases)
    /\ ItemIds(items) \cap {d._id : d \in saving} = {}
    /\ Len(items) = Cardinality(ItemIds(items))
    /\ \A i \in 1..Len(items) : AddedWith(items[i]) = purchases[items[i]._id]
    /\ listing.stage = "answered" =>
          /\ AddedFor(listing.userId, listing.seen) \subseteq ItemIds(listing.docs)
          /\ ItemIds(listing.docs) \subseteq AddedFor(listing.userId, 1..listing.upto)
          /\ Len(listing.docs) = Cardinality(ItemIds(listing.docs))
          /\ \A k \in 1..Len(listing.docs) :
                AddedWith(listing.docs[k]) = purchases[listing.docs[k]._id]

\* after three addOne calls that had all returned, findItemsById answered
\* the two items of its user, saved in the order opposite to that of their
\* calls, the third item being of the other user
C17_Witness ==
    /\ listing.stage = "answered"
    /\ listing.seen = 1..listing.upto
    /\ Len(listing.docs) = 2
    /\ listing.docs[1]._id > listing.docs[2]._id
    /\ \E i \in listing.seen : purchases[i].userId # listing.userId

----------------------------------------------------------------------------
(* C18 *)

CallsOf(op) == {k \in 1..Len(calls) : calls[k].op = op}

\* every call has been answered and its callback has run
Quiescent == \A k \in 1..Len(calls) : calls[k].stage = "done"

\* the route of every call ran and answered OK with the JSON of its result
AllSucceeded ==
    \A k \in 1..Len(calls) :
        calls[k].applied /\ calls[k].res.ok /\ calls[k].res.parses

\* every action was started after the callback of the effect's get had run
StartedAfterFetch == \A k \in 2..Len(calls) : calls[k].loaded

\* the lists the effect's get returned and the lists submitList created
CreatedLists ==
    ListIds(calls[1].res.json.elems)
      \cup {calls[k].res.json.list._id : k \in CallsOf("post")}

DeletedLists == {calls[k].id : k \in CallsOf("del")}

\* C18: after the initial fetch, for any sequence of submitList, deleteList
\* and editListName actions whose requests all succeed and any order of their
\* responses, the lists state holds every list created and not deleted, and
\* no deleted list.
C18_ListsComplete ==
    (Quiescent /\ AllSucceeded /\ StartedAfterFetch) =>
        /\ lists.kind = "array"
        /\ CreatedLists \ DeletedLists \subseteq ListIds(lists.elems)
        /\ DeletedLists \cap ListIds(lists.elems) = {}

----------------------------------------------------------------------------
(* C19 *)

\* the step runs the callback of call k, a del whose DELETE did not succeed
FailedDeleteSettles(k) ==
    /\ k \in 1..Len(calls)
    /\ calls[k].op = "del"
    /\ calls[k].stage = "fetched"
    /\ ~calls[k].applied
    /\ calls'[k].stage = "done"

\* C19: when the delete request fails (network error, response that is not
\* OK, or body carrying an error), deleteList leaves the lists state
\* unchanged.
C19_FailedDeleteKeepsLists ==
    [][\A k \in 1..MaxCalls : FailedDeleteSettles(k) => lists' = lists]_vars

----------------------------------------------------------------------------
(* C20 *)

\* C20: the promise of get, post and del never rejects, and resolves to null
\* whenever fetch threw or the body of the response does not parse.
C20_HelpersNeverReject ==
    \A k \in 1..Len(calls) :
        (calls[k].stage = "done" /\ calls[k].op \in {"get", "post", "del"}) =>
            /\ calls[k].promise.state = "resolved"
            /\ (calls[k].res.threw \/ ~calls[k].res.parses) =>
                  calls[k].promise.value = JNull

=============================================================================
